---- MODULE Spec2Model ----
(***************************************************************************)
(* Model of video_downloader.py: the command-line front end (main), the    *)
(* per-URL job VideoDownloader.download_video (probe, option building,     *)
(* engine download with the progress hook) and the batch loop.  The        *)
(* extraction/download engine (yt_dlp) is the environment: each of its     *)
(* calls returns, raises an Exception or is cut by KeyboardInterrupt.      *)
(*                                                                         *)
(* Text is modelled as a sequence of tokens: a URL "a" is <<"a">>, the     *)
(* quality "720p" is <<"720", "p">>, a batch-file line " b " is            *)
(* <<" ", "b", " ">>, and the empty string is << >>.                       *)
(***************************************************************************)
EXTENDS Integers, Sequences, FiniteSets, TLC

VARIABLES
    batchFile,   \* the file named by --batch-file: [readable, lines]
    args,        \* the parsed command-line arguments
    urls,        \* batch: the list built by main; otherwise the single URL
    idx,         \* 1-based position of the job being processed
    pc,          \* "main", "probe", "download", "built", "exited"
    call,        \* the arguments of the current download_video call
    ydl_opts,    \* options download_video hands to the engine for the current job
    ledger,      \* content of the download-archive file (ids the engine recorded)
    recorded,    \* jobs of this run for which the engine appended to the ledger
    log,         \* engine calls and download_video returns, in order
    task,        \* the rich progress task of the current job
    hookCalls,   \* progress events delivered during the current download
    lastHook,    \* how the last progress_hook call ended
    exitCode     \* -1 while running, else the exit status of the process

vars == <<batchFile, args, urls, idx, pc, call, ydl_opts, ledger, recorded,
          log, task, hookCalls, lastHook, exitCode>>

(***************************************************************************)
(* Bounds.                                                                 *)
(***************************************************************************)
MaxBatchLines == 2
MaxHookEvents == 1

(***************************************************************************)
(* Text helpers.                                                           *)
(***************************************************************************)
Empty == << >>

\* str.replace(old, ""): every occurrence of old is removed.
Replace(s, old) == SelectSeq(s, LAMBDA c : c # old)

RECURSIVE LStrip(_)
LStrip(s) == IF s # Empty /\ Head(s) = " " THEN LStrip(Tail(s)) ELSE s

RECURSIVE RStrip(_)
RStrip(s) == IF s # Empty /\ s[Len(s)] = " "
             THEN RStrip(SubSeq(s, 1, Len(s) - 1)) ELSE s

\* str.strip()
Strip(s) == RStrip(LStrip(s))

\* str.startswith(c)
StartsWith(s, c) == s # Empty /\ Head(s) = c

\* `sub in s` for token sequences
Contains(s, sub) ==
    \E i \in 0..(Len(s) - Len(sub)) : SubSeq(s, i + 1, i + Len(sub)) = sub

(***************************************************************************)
(* Command-line choices (argparse).                                        *)
(***************************************************************************)
QualityChoices ==
    { <<"best">>, <<"worst">>, <<"720", "p">>, <<"1080", "p">>,
      <<"480", "p">>, <<"360", "p">> }
AudioFormats == {"mp3", "m4a", "opus", "wav"}
VideoFormats == {"mp4", "webm", "mkv"}

\* args.archive: unset (None reads as the empty path), relative or absolute
ArchiveChoices == { Empty, <<"my-archive.txt">>, <<"/", "srv/archive.txt">> }

\* args.output
OutputDir == <<"downloads", "/">>

\* Path.is_absolute()
IsAbsolute(path) == StartsWith(path, "/")

\* main: archive_path
ArchivePath(archive) ==
    IF archive # Empty /\ ~IsAbsolute(archive) THEN OutputDir \o archive
    ELSE archive

(***************************************************************************)
(* download_video: the options built for the engine.                       *)
(***************************************************************************)
\* DownloadArchive without the default archive file of the else branch
DownloadArchiveAsGiven(download_archive) == download_archive

\* the download_archive option
DownloadArchive(download_archive) ==
    IF download_archive # Empty
    THEN download_archive
    ELSE OutputDir \o <<"archive.txt">>

\* the selector for a literal height such as "720p"
HeightSelector(quality) ==
    <<"bestvideo[", "height<=">> \o Replace(quality, "p")
        \o <<"]+bestaudio/best[", "height<=">> \o Replace(quality, "p")
        \o <<"]">>

\* FormatSelector without the branch for "worst"
FormatSelectorNoWorst(quality, format_type, video_format) ==
    IF format_type = "audio" THEN <<"bestaudio/best">>
    ELSE IF format_type = "video" THEN
        IF quality = <<"best">> THEN
            <<"bestvideo[", "ext=", video_format, "]+bestaudio[ext=m4a]/best[",
              "ext=", video_format, "]/best">>
        ELSE HeightSelector(quality)
    ELSE <<"best">>

\* ydl_opts['format']
FormatSelector(quality, format_type, video_format) ==
    IF format_type = "audio" THEN <<"bestaudio/best">>
    ELSE IF format_type = "video" THEN
        IF quality = <<"best">> THEN
            <<"bestvideo[", "ext=", video_format, "]+bestaudio[ext=m4a]/best[",
              "ext=", video_format, "]/best">>
        ELSE IF quality = <<"worst">> THEN <<"worst">>
        ELSE HeightSelector(quality)
    ELSE <<"best">>

\* AudioPostprocessors with the metadata step appended before the thumbnail step
AudioPostprocessorsMetadataFirst(audio_format, embed_thumbnail) ==
    << [key |-> "FFmpegExtractAudio", preferredcodec |-> audio_format],
       [key |-> "FFmpegMetadata", preferredcodec |-> "-"] >>
        \o (IF embed_thumbnail
            THEN << [key |-> "EmbedThumbnail", preferredcodec |-> "-"] >>
            ELSE << >>)

\* postprocessors of an audio job
AudioPostprocessors(audio_format, embed_thumbnail) ==
    << [key |-> "FFmpegExtractAudio", preferredcodec |-> audio_format] >>
        \o (IF embed_thumbnail
            THEN << [key |-> "EmbedThumbnail", preferredcodec |-> "-"] >>
            ELSE << >>)
        \o << [key |-> "FFmpegMetadata", preferredcodec |-> "-"] >>

\* postprocessors of a video job
VideoPostprocessors(writesubtitles, embedsubtitles, embed_thumbnail) ==
    << [key |-> "FFmpegMetadata", preferredcodec |-> "-"] >>
        \o (IF writesubtitles /\ embedsubtitles
            THEN << [key |-> "FFmpegEmbedSubtitle", preferredcodec |-> "-"] >>
            ELSE << >>)
        \o (IF embed_thumbnail
            THEN << [key |-> "EmbedThumbnail", preferredcodec |-> "-"] >>
            ELSE << >>)

\* ydl_opts['postprocessors'] for the arguments c of a download_video call
Postprocessors(c) ==
    IF c.format_type = "audio"
    THEN AudioPostprocessors(c.audio_format, c.embed_thumbnail)
    ELSE IF c.format_type = "video"
    THEN VideoPostprocessors(c.writesubtitles, c.embedsubtitles, c.embed_thumbnail)
    ELSE << >>

\* the ydl_opts dictionary built from the arguments c of a download_video
\* call; an unset boolean key reads FALSE
BuildOpts(c) ==
    [ download_archive |-> DownloadArchive(c.download_archive),
      format           |-> FormatSelector(c.quality, c.format_type, c.video_format),
      postprocessors   |-> Postprocessors(c),
      writesubtitles   |-> (c.format_type = "video" /\ c.writesubtitles),
      writethumbnail   |-> (c.format_type \in {"audio", "video"} /\ c.write_thumbnail) ]

NoOpts == [ download_archive |-> Empty, format |-> Empty,
            postprocessors |-> << >>, writesubtitles |-> FALSE,
            writethumbnail |-> FALSE ]

\* the default values of download_video's parameters
Defaults ==
    [ quality |-> <<"best">>, format_type |-> "video", audio_format |-> "mp3",
      video_format |-> "mp4", download_archive |-> Empty,
      writesubtitles |-> FALSE, embedsubtitles |-> FALSE,
      write_thumbnail |-> FALSE, embed_thumbnail |-> FALSE ]

\* main: format_type = "audio" if args.audio else "video"
FormatType(a) == IF a.audio THEN "audio" ELSE "video"

\* the keyword arguments every download_video call of main passes
Common(a) ==
    [ Defaults EXCEPT !.download_archive = ArchivePath(a.archive),
                      !.writesubtitles = a.subtitles,
                      !.embedsubtitles = a.embed_subs,
                      !.write_thumbnail = a.write_thumbnail,
                      !.embed_thumbnail = a.embed_thumbnail ]

\* the download_video call of the batch loop and of command-line mode
CallFromArgs(a) ==
    [ Common(a) EXCEPT !.quality = a.quality, !.format_type = FormatType(a),
                       !.audio_format = a.format,
                       !.video_format = a.video_format ]

\* the download_video call of interactive mode, options 1, 2 and 3
InteractiveCall(a, choice, qualityInput, formatInput) ==
    IF choice = "1" THEN [ Common(a) EXCEPT !.quality = <<"best">> ]
    ELSE IF choice = "2" THEN [ Common(a) EXCEPT !.quality = qualityInput ]
    ELSE [ Common(a) EXCEPT !.format_type = "audio",
               !.audio_format = IF formatInput = "" THEN "mp3" ELSE formatInput ]

(***************************************************************************)
(* progress_hook: the callback the engine drives during a download.        *)
(* A raw event d is a record whose optional keys are sets: {} when the key *)
(* is missing, {v} when it holds v.                                        *)
(***************************************************************************)
Statuses == { {}, {"downloading"}, {"finished"}, {"error"} }

RawEvents ==
    [ status : Statuses, total_bytes : { {}, {200} },
      total_bytes_estimate : { {}, {300} }, downloaded_bytes : { {}, {50} },
      speed : { {}, {10} }, eta : { {}, {5} } ]

Value(field) == CHOOSE v \in field : TRUE

\* Progress.add_task("[green]Downloading", total=100)
NewTask == [ completed |-> 0, total |-> 100,
             description |-> <<"[green]Downloading">> ]

\* the description a "downloading" event sets
Description(d) ==
    <<"Downloading">>
        \o (IF d.speed # {} THEN <<"speed", "/s">> ELSE << >>)
        \o (IF d.eta # {} THEN <<"ETA", "eta", "s">> ELSE << >>)

\* progress_hook(d, progress, task): the exception it raises ("none" when it
\* returns) and the task as it leaves it
progress_hook(d, t) ==
    IF d.status = {} THEN [ raised |-> "KeyError", task |-> t ]
    ELSE IF Value(d.status) = "downloading" THEN
        IF d.total_bytes # {} THEN
            IF d.downloaded_bytes = {} THEN [ raised |-> "KeyError", task |-> t ]
            ELSE [ raised |-> "none",
                   task |-> [ completed |-> Value(d.downloaded_bytes),
                              total |-> Value(d.total_bytes),
                              description |-> Description(d) ] ]
        ELSE IF d.total_bytes_estimate # {} THEN
            IF d.downloaded_bytes = {} THEN [ raised |-> "KeyError", task |-> t ]
            ELSE [ raised |-> "none",
                   task |-> [ completed |-> Value(d.downloaded_bytes),
                              total |-> Value(d.total_bytes_estimate),
                              description |-> Description(d) ] ]
        ELSE [ raised |-> "none",
               task |-> [ t EXCEPT !.description = Description(d) ] ]
    ELSE IF Value(d.status) = "finished" THEN
        [ raised |-> "none", task |-> [ t EXCEPT !.completed = 100, !.total = 100 ] ]
    ELSE [ raised |-> "none", task |-> t ]

(***************************************************************************)
(* download_video: the video-info panel.                                   *)
(***************************************************************************)
\* info['duration'] as the engine reports it: missing or None, whole seconds,
\* or fractional seconds (a Python float; seconds holds its whole part)
Durations ==
    { [ type |-> "NoneType", seconds |-> 0 ],
      [ type |-> "int", seconds |-> 125 ],
      [ type |-> "float", seconds |-> 30 ] }

\* duration_str: format code 02d rejects a float with ValueError
DurationStr(duration) ==
    IF duration.seconds = 0 THEN [ raised |-> "none", text |-> <<"Unknown">> ]
    ELSE IF duration.type = "float" THEN [ raised |-> "ValueError", text |-> Empty ]
    ELSE [ raised |-> "none",
           text |-> <<duration.seconds \div 60, duration.seconds % 60>> ]

(***************************************************************************)
(* main: dispatch and the batch file.                                      *)
(***************************************************************************)
Mode(a) ==
    IF a.batch_file THEN "batch"
    ELSE IF a.interactive \/ a.url = Empty THEN "interactive"
    ELSE "cli"

\* ParseBatch with each URL inserted at the front of the list
RECURSIVE ParseBatchPrepends(_)
ParseBatchPrepends(lines) ==
    IF lines = << >> THEN << >>
    ELSE LET line == Strip(lines[Len(lines)])
             before == ParseBatchPrepends(SubSeq(lines, 1, Len(lines) - 1))
         IN IF line = Empty \/ StartsWith(line, "#") THEN before
            ELSE <<line>> \o before

\* the loop over the lines of the batch file
RECURSIVE ParseBatch(_)
ParseBatch(lines) ==
    IF lines = << >> THEN << >>
    ELSE LET line == Strip(lines[Len(lines)])
             before == ParseBatch(SubSeq(lines, 1, Len(lines) - 1))
         IN IF line = Empty \/ StartsWith(line, "#") THEN before
            ELSE Append(before, line)

\* Caught with a bare `except:`, which also takes KeyboardInterrupt
CaughtAll(exc) == TRUE

\* `except Exception` of get_video_info and download_video
Caught(exc) == exc = "Exception"

\* status of a process that dies of an uncaught exception
UncaughtExit(exc) == IF exc = "KeyboardInterrupt" THEN 130 ELSE 1

\* ExitCodeAtEnd with a non-zero status when a job failed
ExitCodeFailsOnError(failed) == IF failed # {} THEN 1 ELSE 0

\* status when main returns; failed lists the jobs that returned False
ExitCodeAtEnd(failed) == 0

\* a log entry: an engine call, its end, or a return of download_video
Entry(op, result, archive) ==
    [ op |-> op, job |-> idx, url |-> urls[idx], result |-> result,
      inLedger |-> urls[idx] \in ledger, archive |-> archive ]

\* the jobs whose download_video call returned False
FailedJobs(l) ==
    { l[k].job : k \in { m \in 1..Len(l) : l[m].op = "return" /\ l[m].result = "False" } }

(***************************************************************************)
(* Inputs.                                                                 *)
(***************************************************************************)
Urls == { <<"a">>, <<"b">> }

\* lines a batch file may hold: blank, comment, URL, padded URL
SampleLines == { Empty, <<" ">>, <<"#", "a">>, <<"a">>, <<" ", "b", " ">> }

BatchLines == UNION { [1..n -> SampleLines] : n \in 0..MaxBatchLines }

NoFile == [ readable |-> FALSE, lines |-> << >> ]

BatchFiles == { NoFile } \cup { [ readable |-> TRUE, lines |-> l ] : l \in BatchLines }

\* every result of parser.parse_args() for the options modelled
ArgsSpace ==
    [ url : { Empty, <<"a">> }, batch_file : BOOLEAN, interactive : BOOLEAN,
      list_formats : BOOLEAN, quality : QualityChoices, audio : BOOLEAN,
      format : AudioFormats, video_format : VideoFormats,
      subtitles : BOOLEAN, embed_subs : BOOLEAN, write_thumbnail : BOOLEAN,
      embed_thumbnail : BOOLEAN, archive : ArchiveChoices ]

\* the command lines of the orchestration runs: --batch-file alone or a single
\* URL, with the format options at their defaults
RunArgs ==
    { a \in ArgsSpace :
        /\ a.quality = <<"best">> /\ a.format = "mp3" /\ a.video_format = "mp4"
        /\ ~a.subtitles /\ ~a.embed_subs /\ ~a.write_thumbnail /\ ~a.embed_thumbnail
        /\ ~IsAbsolute(a.archive)
        /\ a.batch_file => (a.url = Empty /\ ~a.interactive /\ ~a.list_formats) }

\* the command lines of the option-building runs: one URL, every option
BuildArgs ==
    { a \in ArgsSpace :
        a.url # Empty /\ ~a.batch_file /\ ~a.interactive /\ ~a.list_formats }

(***************************************************************************)
(* Orchestration.                                                          *)
(***************************************************************************)
Init ==
    /\ args \in RunArgs
    /\ batchFile \in (IF args.batch_file THEN BatchFiles ELSE { NoFile })
    /\ urls = << >>
    /\ idx = 0
    /\ pc = "main"
    /\ call = Defaults
    /\ ydl_opts = NoOpts
    /\ ledger \in SUBSET Urls
    /\ recorded = {}
    /\ log = << >>
    /\ task = NewTask
    /\ hookCalls = 0
    /\ lastHook = "none"
    /\ exitCode = -1

\* the process ends with status code
Exit(code) == pc' = "exited" /\ exitCode' = code

\* Advance with the loop left at the first job that returns False
AdvanceStopsOnFailure(l) ==
    /\ idx' = idx + 1
    /\ IF Mode(args) = "batch" /\ idx < Len(urls) /\ FailedJobs(l) = {}
       THEN pc' = "probe" /\ exitCode' = exitCode
       ELSE Exit(ExitCodeAtEnd(FailedJobs(l)))

\* download_video has returned and main moves on: the next URL of the batch,
\* or the end of main; l is the log including this return
Advance(l) ==
    /\ idx' = idx + 1
    /\ IF Mode(args) = "batch" /\ idx < Len(urls)
       THEN pc' = "probe" /\ exitCode' = exitCode
       ELSE Exit(ExitCodeAtEnd(FailedJobs(l)))

\* main, batch mode: the batch file cannot be opened or read
ReadBatchFileFails ==
    /\ pc = "main" /\ Mode(args) = "batch" /\ ~batchFile.readable
    /\ Exit(1)
    /\ UNCHANGED <<batchFile, args, urls, idx, call, ydl_opts, ledger, recorded,
                   log, task, hookCalls, lastHook>>

\* main, batch mode: the URLs are read and the loop starts
ReadBatchFile ==
    /\ pc = "main" /\ Mode(args) = "batch" /\ batchFile.readable
    /\ urls' = ParseBatch(batchFile.lines)
    /\ call' = CallFromArgs(args)
    /\ IF urls' = << >>
       THEN idx' = idx /\ Exit(ExitCodeAtEnd({}))
       ELSE idx' = 1 /\ pc' = "probe" /\ exitCode' = exitCode
    /\ UNCHANGED <<batchFile, args, ydl_opts, ledger, recorded, log, task,
                   hookCalls, lastHook>>

\* main, command-line mode without --list-formats
CommandLine ==
    /\ pc = "main" /\ Mode(args) = "cli" /\ ~args.list_formats
    /\ urls' = <<args.url>> /\ idx' = 1 /\ pc' = "probe"
    /\ call' = CallFromArgs(args)
    /\ UNCHANGED <<batchFile, args, ydl_opts, ledger, recorded, log, task,
                   hookCalls, lastHook, exitCode>>

\* main, interactive mode without --list-formats: the URL is args.url or the
\* text typed at the prompt, then the menu choice
Interactive(urlInput, choice, qualityInput, formatInput) ==
    /\ pc = "main" /\ Mode(args) = "interactive" /\ ~args.list_formats
    /\ urls' = << IF args.url = Empty THEN urlInput ELSE args.url >>
    /\ IF choice \in {"1", "2", "3"}
       THEN /\ idx' = 1 /\ pc' = "probe" /\ exitCode' = exitCode
            /\ call' = InteractiveCall(args, choice, qualityInput, formatInput)
       ELSE /\ idx' = idx /\ call' = call
            /\ Exit(ExitCodeAtEnd({}))
    /\ UNCHANGED <<batchFile, args, ydl_opts, ledger, recorded, log, task,
                   hookCalls, lastHook>>

\* main with --list-formats: list_formats(url) calls the engine's extract_info;
\* an Exception is printed, then main returns
ListFormats(urlInput, result) ==
    /\ pc = "main" /\ Mode(args) \in {"interactive", "cli"} /\ args.list_formats
    /\ urls' = << IF args.url = Empty THEN urlInput ELSE args.url >>
    /\ idx' = 1
    /\ log' = << [ op |-> "list_formats", job |-> 1, url |-> urls'[1],
                   result |-> result, inLedger |-> urls'[1] \in ledger,
                   archive |-> Empty ] >>
    /\ IF result \in {"ok", "Exception"}
       THEN Exit(ExitCodeAtEnd({}))
       ELSE Exit(UncaughtExit(result))
    /\ UNCHANGED <<batchFile, args, call, ydl_opts, ledger, recorded, task,
                   hookCalls, lastHook>>

\* ProbeRaises without `if not info: return False`: the job goes on to the
\* download with the empty info
ProbeRaisesThenDownloads(exc) ==
    /\ pc = "probe"
    /\ IF Caught(exc)
       THEN /\ ydl_opts' = BuildOpts(call)
            /\ log' = log \o << Entry("probe", exc, Empty),
                         Entry("download", "called", ydl_opts'.download_archive) >>
            /\ idx' = idx
            /\ pc' = "download" /\ exitCode' = exitCode
       ELSE /\ log' = Append(log, Entry("probe", exc, Empty))
            /\ idx' = idx
            /\ Exit(UncaughtExit(exc))
            /\ UNCHANGED ydl_opts
    /\ UNCHANGED <<batchFile, args, urls, call, ledger, recorded, task,
                   hookCalls, lastHook>>

\* download_video: get_video_info's extract_info raises exc
ProbeRaises(exc) ==
    /\ pc = "probe"
    /\ IF Caught(exc)
       THEN /\ log' = log \o << Entry("probe", exc, Empty),
                                Entry("return", "False", Empty) >>
            /\ Advance(log')
       ELSE /\ log' = Append(log, Entry("probe", exc, Empty))
            /\ idx' = idx
            /\ Exit(UncaughtExit(exc))
    /\ UNCHANGED <<batchFile, args, urls, call, ydl_opts, ledger, recorded, task,
                   hookCalls, lastHook>>

\* download_video: the probe returns the info, the panel is printed, the
\* options are built and the engine's download is called
ProbeReturns(duration) ==
    /\ pc = "probe"
    /\ IF DurationStr(duration).raised # "none"
       THEN /\ log' = Append(log, Entry("probe", "ok", Empty))
            /\ Exit(UncaughtExit(DurationStr(duration).raised))
            /\ UNCHANGED ydl_opts
       ELSE /\ ydl_opts' = BuildOpts(call)
            /\ log' = log \o << Entry("probe", "ok", Empty),
                         Entry("download", "called", ydl_opts'.download_archive) >>
            /\ pc' = "download" /\ exitCode' = exitCode
    /\ task' = NewTask /\ hookCalls' = 0 /\ lastHook' = "none"
    /\ UNCHANGED <<batchFile, args, urls, idx, call, ledger, recorded>>

\* the engine finds the id in the archive file named by its options
EngineSkips == ydl_opts.download_archive # Empty /\ urls[idx] \in ledger

\* ydl.download raises exc: download_video prints the error and returns
\* False, unless the exception passes `except Exception`
DownloadEndsWith(exc) ==
    /\ IF Caught(exc)
       THEN /\ log' = log \o << Entry("download_end", exc, ydl_opts.download_archive),
                                Entry("return", "False", Empty) >>
            /\ Advance(log')
       ELSE /\ log' = Append(log, Entry("download_end", exc, ydl_opts.download_archive))
            /\ idx' = idx
            /\ Exit(UncaughtExit(exc))
    /\ task' = NewTask /\ hookCalls' = 0
    /\ UNCHANGED <<batchFile, args, urls, call, ydl_opts, ledger, recorded>>

\* the engine reports progress: progress_hook_wrapper(d); an exception of the
\* hook leaves through ydl.download
ProgressEvent(d) ==
    /\ pc = "download" /\ ~EngineSkips /\ hookCalls < MaxHookEvents
    /\ lastHook' = progress_hook(d, task).raised
    /\ IF lastHook' = "none"
       THEN /\ task' = progress_hook(d, task).task
            /\ hookCalls' = hookCalls + 1
            /\ UNCHANGED <<batchFile, args, urls, idx, pc, call, ydl_opts, ledger,
                           recorded, log, exitCode>>
       ELSE DownloadEndsWith("Exception")

\* the engine's download fails or is interrupted
DownloadRaises(exc) ==
    /\ pc = "download"
    /\ DownloadEndsWith(exc)
    /\ UNCHANGED lastHook

\* the engine's download returns: the media was fetched and its id appended
\* to the archive file, or the id was found there and nothing was fetched
DownloadReturns ==
    /\ pc = "download"
    /\ IF EngineSkips
       THEN /\ log' = log \o << Entry("download_end", "skipped", ydl_opts.download_archive),
                                Entry("return", "True", Empty) >>
            /\ UNCHANGED <<ledger, recorded>>
       ELSE /\ log' = log \o << Entry("download_end", "fetched", ydl_opts.download_archive),
                                Entry("return", "True", Empty) >>
            /\ ledger' = IF ydl_opts.download_archive # Empty
                         THEN ledger \cup { urls[idx] } ELSE ledger
            /\ recorded' = recorded \cup { idx }
    /\ Advance(log')
    /\ task' = NewTask /\ hookCalls' = 0
    /\ UNCHANGED <<batchFile, args, urls, call, ydl_opts, lastHook>>

Exceptions == { "Exception", "KeyboardInterrupt" }

Next ==
    \/ ReadBatchFileFails
    \/ ReadBatchFile
    \/ CommandLine
    \/ \E u \in { Empty, <<"b">> }, c \in {"1", "2", "3", "4"},
          q \in { <<"720", "p">>, Empty }, f \in { "", "m4a" } :
            Interactive(u, c, q, f)
    \/ \E u \in { Empty, <<"b">> }, r \in { "ok" } \cup Exceptions :
            ListFormats(u, r)
    \/ \E exc \in Exceptions : ProbeRaises(exc)
    \/ \E duration \in Durations : ProbeReturns(duration)
    \/ \E d \in RawEvents : ProgressEvent(d)
    \/ \E exc \in Exceptions : DownloadRaises(exc)
    \/ DownloadReturns

Spec == Init /\ [][Next]_vars

(***************************************************************************)
(* Option building alone, over every combination of the options.           *)
(***************************************************************************)
BuildInit ==
    /\ args \in BuildArgs
    /\ batchFile = NoFile
    /\ urls = <<args.url>>
    /\ idx = 1
    /\ pc = "main"
    /\ call = Defaults
    /\ ydl_opts = NoOpts
    /\ ledger = {}
    /\ recorded = {}
    /\ log = << >>
    /\ task = NewTask
    /\ hookCalls = 0
    /\ lastHook = "none"
    /\ exitCode = -1

\* download_video builds ydl_opts for the call main makes
BuildJob ==
    /\ pc = "main"
    /\ call' = CallFromArgs(args)
    /\ ydl_opts' = BuildOpts(call')
    /\ pc' = "built"
    /\ UNCHANGED <<batchFile, args, urls, idx, ledger, recorded, log, task,
                   hookCalls, lastHook, exitCode>>

BuildNext == BuildJob

BuildSpec == BuildInit /\ [][BuildNext]_vars

(***************************************************************************)
(* What the log tells about job i.                                         *)
(***************************************************************************)
IsBatch == Mode(args) = "batch"

LogIndex == 1..Len(log)

\* the engine was called for job i
Attempted(i) ==
    \E k \in LogIndex : log[k].job = i /\ log[k].op \in {"probe", "download"}

\* the probe or the download of job i raised an Exception
EngineFailed(i) ==
    \E k \in LogIndex : /\ log[k].job = i
                        /\ log[k].op \in {"probe", "download_end"}
                        /\ log[k].result = "Exception"

\* download_video returned for job i
Returned(i) == \E k \in LogIndex : log[k].job = i /\ log[k].op = "return"

\* the URLs of the batch file, in file order
InputOrder ==
    SelectSeq([ n \in 1..Len(batchFile.lines) |-> Strip(batchFile.lines[n]) ],
              LAMBDA l : l # Empty /\ ~StartsWith(l, "#"))

(***************************************************************************)
(* C1: failure isolation in batch mode.  When the probe or the download of *)
(* job i raises an Exception, download_video returns for job i and the     *)
(* loop moves past it: the run does not end before job i+1 is attempted.   *)
(***************************************************************************)
C1_FailureIsolation ==
    IsBatch =>
        \A i \in 1..Len(urls) :
            EngineFailed(i) =>
                /\ Returned(i)
                /\ idx > i
                /\ i < Len(urls) => (pc # "exited" \/ Attempted(i + 1))

\* job 1 fails in the probe, job 2 is then downloaded and fails in the engine
C1_Witness ==
    /\ IsBatch /\ Len(urls) = 2 /\ pc = "exited"
    /\ \E k \in LogIndex : log[k].job = 1 /\ log[k].op = "probe"
                           /\ log[k].result = "Exception"
    /\ \E k \in LogIndex : log[k].job = 2 /\ log[k].op = "download_end"
                           /\ log[k].result = "Exception"

C3_SequentialInOrder ==
    IsBatch =>
        /\ \A k \in LogIndex :
              /\ log[k].job \in 1..Len(InputOrder)
              /\ log[k].url = InputOrder[log[k].job]
              /\ log[k].job = 1 + Cardinality({ m \in 1..(k - 1) : log[m].op = "return" })
        /\ \A k \in LogIndex : \A m \in 1..(k - 1) :
              /\ log[m].job <= log[k].job
              /\ log[m].job < log[k].job =>
                    \E r \in m..(k - 1) : log[r].op = "return" /\ log[r].job = log[m].job

\* two different URLs, the first failed, both returned
C3_Witness ==
    /\ IsBatch /\ Len(urls) = 2 /\ urls[1] # urls[2]
    /\ 1 \in FailedJobs(log) /\ Returned(2)

(***************************************************************************)
(* C4: cancellation.  When KeyboardInterrupt cuts the probe or the         *)
(* download of a job of a batch, the run ends there: the ledger holds      *)
(* nothing new for that job, and no later job is attempted.                *)
(***************************************************************************)
C4_Cancellation ==
    IsBatch =>
        \A k \in LogIndex :
            log[k].result = "KeyboardInterrupt" =>
                /\ k = Len(log)
                /\ pc = "exited"
                /\ log[k].job \notin recorded
                /\ (log[k].url \in ledger) = log[k].inLedger
                /\ \A j \in 1..Len(urls) : j > log[k].job => ~Attempted(j)

\* the download of job 1 of 2 is interrupted; its URL was not in the ledger
C4_Witness ==
    /\ IsBatch /\ Len(urls) = 2 /\ pc = "exited"
    /\ \E k \in LogIndex : /\ log[k].job = 1 /\ log[k].op = "download_end"
                           /\ log[k].result = "KeyboardInterrupt"
                           /\ ~log[k].inLedger

(***************************************************************************)
(* C5, as claimed: the progress callback never raises, whatever the raw    *)
(* event.                                                                  *)
(***************************************************************************)
C5_HookNeverRaises == lastHook = "none"

(***************************************************************************)
(* C6, as claimed: the engine's probe and download are never called for a  *)
(* job whose URL is empty.                                                 *)
(***************************************************************************)
C6_NoEngineCallForEmptyUrl ==
    \A k \in LogIndex :
        log[k].op \in {"probe", "download"} => log[k].url # Empty

Keys(pp) == [ n \in 1..Len(pp) |-> pp[n].key ]

HasStep(key) ==
    \E n \in 1..Len(ydl_opts.postprocessors) : ydl_opts.postprocessors[n].key = key

\* the digits of a quality token NNNp
Height(quality) == Head(quality)

IsHeightToken(quality) == Len(quality) = 2 /\ quality[2] = "p"

(***************************************************************************)
(* C8: post-processing order of an audio job.  The list starts with the    *)
(* audio extraction in the requested codec and ends with the metadata      *)
(* step; the thumbnail embedding, when requested, is between them.         *)
(***************************************************************************)
C8_AudioStepOrder ==
    (pc = "built" /\ call.format_type = "audio") =>
        LET pp == ydl_opts.postprocessors IN
        /\ pp[1].key = "FFmpegExtractAudio"
        /\ pp[1].preferredcodec = args.format
        /\ pp[Len(pp)].key = "FFmpegMetadata"
        /\ Keys(pp) = IF args.embed_thumbnail
                      THEN <<"FFmpegExtractAudio", "EmbedThumbnail", "FFmpegMetadata">>
                      ELSE <<"FFmpegExtractAudio", "FFmpegMetadata">>

\* an audio job with thumbnail embedding requested
C8_Witness ==
    /\ pc = "built" /\ call.format_type = "audio"
    /\ args.embed_thumbnail /\ args.write_thumbnail /\ args.format = "opus"
    /\ Len(ydl_opts.postprocessors) = 3

(***************************************************************************)
(* C9, as claimed: for every quality token, media kind and container the   *)
(* selector is non-empty, is the alias "worst" for worst and contains      *)
(* height<=NNN for NNNp.                                                   *)
(***************************************************************************)
C9_SelectorForEveryKind ==
    pc = "built" =>
        /\ ydl_opts.format # Empty
        /\ args.quality = <<"worst">> => ydl_opts.format = <<"worst">>
        /\ IsHeightToken(args.quality) =>
              Contains(ydl_opts.format, <<"height<=", Height(args.quality)>>)

(***************************************************************************)
(* C9, amended: the selector is never empty; for a video job it is the     *)
(* alias "worst" for worst and contains height<=NNN for NNNp; for an audio *)
(* job it is bestaudio/best whatever the quality token.                    *)
(***************************************************************************)
C9_Selector ==
    pc = "built" =>
        /\ ydl_opts.format # Empty
        /\ call.format_type = "video" =>
              /\ args.quality = <<"worst">> => ydl_opts.format = <<"worst">>
              /\ IsHeightToken(args.quality) =>
                    Contains(ydl_opts.format, <<"height<=", Height(args.quality)>>)
        /\ call.format_type = "audio" => ydl_opts.format = <<"bestaudio/best">>

\* a video job at 1080p
C9_Witness ==
    /\ pc = "built" /\ call.format_type = "video"
    /\ args.quality = <<"1080", "p">>
    /\ Contains(ydl_opts.format, <<"height<=", "1080">>)

(***************************************************************************)
(* C10, as claimed: a subtitle-embedding step is present only if subtitle  *)
(* writing is enabled, and a thumbnail-embedding step only if thumbnail    *)
(* writing is enabled.                                                     *)
(***************************************************************************)
C10_EmbedOnlyWithWrite ==
    pc = "built" =>
        /\ HasStep("FFmpegEmbedSubtitle") => ydl_opts.writesubtitles
        /\ HasStep("EmbedThumbnail") => ydl_opts.writethumbnail

(***************************************************************************)
(* The phase of job i, read from the position of main and the log.         *)
(* Building is passed inside the step that ends the probe and calls the    *)
(* download, so no state shows it.                                         *)
(***************************************************************************)
ProbeCalled(i) == \E k \in LogIndex : log[k].job = i /\ log[k].op = "probe"

DownloadInvoked(i) == \E k \in LogIndex : log[k].job = i /\ log[k].op = "download"

ProbeFailed(i) ==
    \E k \in LogIndex : /\ log[k].job = i /\ log[k].op = "probe"
                        /\ log[k].result = "Exception"

\* the phase a log entry shows its job in
EntryPhase(e) ==
    CASE e.op = "probe" -> "Probing"
      [] e.op \in {"download", "download_end"} -> "Downloading"
      [] e.op = "return" -> (IF e.result = "False" THEN "Failed" ELSE "Succeeded")
      [] OTHER -> "Pending"

Phase(i) ==
    IF Returned(i)
    THEN (IF i \in FailedJobs(log) THEN "Failed" ELSE "Succeeded")
    ELSE IF DownloadInvoked(i) THEN "Downloading"
    ELSE IF ProbeCalled(i) \/ (idx = i /\ pc = "probe") THEN "Probing"
    ELSE "Pending"

Rank(phase) ==
    CASE phase = "Pending" -> 0
      [] phase = "Probing" -> 1
      [] phase = "Building" -> 2
      [] phase = "Downloading" -> 3
      [] phase \in {"Succeeded", "Failed"} -> 4

(***************************************************************************)
(* C11: each job moves only forward through Pending, Probing, Building,    *)
(* Downloading and then Succeeded or Failed.  In the history of a job no   *)
(* entry shows an earlier phase than an entry before it and no engine call *)
(* is made twice; nothing follows the return of a job, and main is past    *)
(* every returned job; a job whose probe failed is Failed, and the         *)
(* engine's download was never called for it.                              *)
(***************************************************************************)
C11_ForwardOnly ==
    /\ \A k \in LogIndex : \A m \in 1..(k - 1) :
          log[m].job = log[k].job =>
              /\ Rank(EntryPhase(log[m])) <= Rank(EntryPhase(log[k]))
              /\ log[m].op # "return"
              /\ log[k].op \in {"probe", "download"} => log[m].op # log[k].op
    /\ \A i \in 1..Len(urls) :
          /\ Returned(i) => idx > i
          /\ ProbeFailed(i) => (Phase(i) = "Failed" /\ ~DownloadInvoked(i))
          /\ Rank(Phase(i)) >= Rank("Downloading") => ProbeCalled(i)

\* the probe of job 1 failed, job 2 was downloaded and succeeded
C11_Witness ==
    /\ IsBatch /\ Len(urls) = 2
    /\ ProbeFailed(1) /\ Phase(1) = "Failed" /\ ~DownloadInvoked(1)
    /\ DownloadInvoked(2) /\ Phase(2) = "Succeeded"

====
